---- MODULE Spec2Model ----
(***************************************************************************)
(* Provably-fair Plinko server: the per-connection session state machine   *)
(* of server/src/index.ts, the derivation and verification functions of    *)
(* utils/provableFairness, and the client's PlinkoService.verifyGameResult.*)
(*                                                                         *)
(* Conventions of the model                                                *)
(*  - A JavaScript value that may be a number, NaN or undefined is a record*)
(*    [t, v]: Num(n), NaN, Undefined.                                      *)
(*  - Money and multipliers are fixed point, in tenths: the multiplier 1.5 *)
(*    is 15, the starting balance 1000 is 10000.  Bets are whole units, so *)
(*    bet * multiplier is exact.                                           *)
(*  - Seeds are hex strings in the code; here they are numbered.  0 is a   *)
(*    falsy client seed (undefined or ""), generated server seeds are      *)
(*    100 + k, generated client seeds 200 + k, where k counts the draws    *)
(*    from crypto.randomBytes (draws never repeat).                        *)
(*  - SHA-256 is a fixed mixing function; only the first 32-bit word of a  *)
(*    digest is used by the code, and the model keeps 8 bits of it.        *)
(***************************************************************************)
EXTENDS Integers, Sequences, FiniteSets, TLC

VARIABLES
  userStates,   \* Map<socket.id, UserState>: a function on the ids that have state
  conn,         \* socket lifecycle: "idle" (never connected), "open", "closed"
  outbox,       \* per socket, the sequence of messages emitted with socket.emit
  entropy,      \* number of values drawn from crypto.randomBytes so far
  lastVerify,   \* the last PlinkoService.verifyGameResult call of a client and its outcome
  fairCall,     \* SpecFair: the arguments of the last direct call of a derivation function
  fairRet       \* SpecFair: what that call returned

vars == <<userStates, conn, outbox, entropy, lastVerify, fairCall, fairRet>>

(***************************************************************************)
(* Bounds                                                                  *)
(***************************************************************************)
MaxSent == 5        \* messages emitted by the server in one run
MaxFairNonce == 2   \* largest nonce of a direct derivation call
MaxFairRows == 3    \* largest row count of a direct derivation call
MaxPathLen == 4     \* paths of every length up to this one are folded
MaxRequests == 3    \* game:new-client-seed requests recorded in one run

Sockets == {"a", "b"}

(***************************************************************************)
(* JavaScript values and operators                                         *)
(***************************************************************************)
Num(n) == [t |-> "number", v |-> n]
NaN == [t |-> "NaN", v |-> 0]
Undefined == [t |-> "undefined", v |-> 0]
Null == [t |-> "null", v |-> 0]

\* a === b on numbers, NaN and undefined
StrictEq(a, b) == a.t # "NaN" /\ b.t # "NaN" /\ a = b

\* ToNumber: undefined is NaN
ToNumber(a) == IF a.t = "number" THEN a ELSE IF a.t = "null" THEN Num(0) ELSE NaN

\* a + b, a - b on numbers
Plus(a, b) ==
  IF ToNumber(a).t = "number" /\ ToNumber(b).t = "number"
  THEN Num(ToNumber(a).v + ToNumber(b).v) ELSE NaN

Minus(a, b) ==
  IF ToNumber(a).t = "number" /\ ToNumber(b).t = "number"
  THEN Num(ToNumber(a).v - ToNumber(b).v) ELSE NaN

\* amount * multiplier, both in tenths
Times(a, b) ==
  IF ToNumber(a).t = "number" /\ ToNumber(b).t = "number"
  THEN Num((ToNumber(a).v * ToNumber(b).v) \div 10) ELSE NaN

\* a < b in the place of a <= b
LessEq_Strict(a, b) ==
  ToNumber(a).t = "number" /\ ToNumber(b).t = "number" /\ ToNumber(a).v < ToNumber(b).v

\* a <= b and a > b: any comparison with NaN is false
LessEq(a, b) ==
  ToNumber(a).t = "number" /\ ToNumber(b).t = "number" /\ ToNumber(a).v <= ToNumber(b).v

\* a comparison that never rejects
Greater_Never(a, b) == FALSE

Greater(a, b) ==
  ToNumber(a).t = "number" /\ ToNumber(b).t = "number" /\ ToNumber(a).v > ToNumber(b).v

\* a || b
OrElse(a, b) == IF a.t = "number" /\ a.v # 0 THEN a ELSE b

Min(a, b) == IF a < b THEN a ELSE b
Max(a, b) == IF a > b THEN a ELSE b

(***************************************************************************)
(* utils/provableFairness                                                  *)
(***************************************************************************)
\* a high table whose last entry differs from its first
MULTIPLIERS_Lopsided ==
  [low    |-> <<15, 12, 11, 10, 9, 8, 7, 6, 5, 6, 7, 8, 9, 10, 11, 12, 15>>,
   medium |-> <<50, 30, 20, 15, 10, 5, 3, 2, 1, 2, 3, 5, 10, 15, 20, 30, 50>>,
   high   |-> <<1100, 410, 100, 50, 30, 20, 15, 5, 3, 5, 15, 20, 30, 50, 100, 410, 1000>>]

MULTIPLIERS ==
  [low    |-> <<15, 12, 11, 10, 9, 8, 7, 6, 5, 6, 7, 8, 9, 10, 11, 12, 15>>,
   medium |-> <<50, 30, 20, 15, 10, 5, 3, 2, 1, 2, 3, 5, 10, 15, 20, 30, 50>>,
   high   |-> <<1100, 410, 100, 50, 30, 20, 15, 5, 3, 5, 15, 20, 30, 50, 100, 410, 1100>>]

generateServerSeed(drawn) == 100 + drawn

generateClientSeed(drawn) == 200 + drawn

\* SHA-256 of the seed: a one-way image, injective on the seeds of the model
hashServerSeed(serverSeed) == (serverSeed * 7919 + 13) % 10007

\* the first word of SHA-256("serverSeed:clientSeed:nonce"), 8 bits of it;
\* the code divides it by the largest word, the caller compares with 0.5
deterministicRandom(serverSeed, clientSeed, nonce) ==
  LET n == IF nonce.t = "number" THEN nonce.v ELSE 977
  IN ((serverSeed * 131 + clientSeed * 31 + n * 17
        + serverSeed * clientSeed * (n + 1)) * 73) % 256

\* a path whose rows are all sampled at the nonce of the play
calculatePath_SameNonce(serverSeed, clientSeed, nonce, rows) ==
  LET count == IF rows.t = "number" /\ rows.v > 0 THEN rows.v ELSE 0
  IN [i \in 1..count |->
        IF 2 * deterministicRandom(serverSeed, clientSeed, nonce) < 255
        THEN 0 ELSE 1]

\* for (i = 0; i < rows; i++): no iteration when rows is NaN, undefined or <= 0
calculatePath(serverSeed, clientSeed, nonce, rows) ==
  LET count == IF rows.t = "number" /\ rows.v > 0 THEN rows.v ELSE 0
  IN [i \in 1..count |->
        IF 2 * deterministicRandom(serverSeed, clientSeed, Plus(nonce, Num(i - 1))) < 255
        THEN 0 ELSE 1]

RECURSIVE position(_)
position(path) ==
  IF path = <<>> THEN 0
  ELSE position(SubSeq(path, 1, Len(path) - 1))
         + (IF path[Len(path)] = 0 THEN -1 ELSE 1)

totalBins == 17

\* calculateFinalBin without Math.min
calculateFinalBin_NoClamp(path) ==
  LET normalizedPosition == position(path) + Len(path)
  IN IF Len(path) = 0 THEN NaN
     ELSE Num((normalizedPosition * totalBins) \div (Len(path) * 2))

\* calculateFinalBin with Math.round in the place of Math.floor
calculateFinalBin_Rounded(path) ==
  LET normalizedPosition == position(path) + Len(path)
  IN IF Len(path) = 0 THEN NaN
     ELSE Num(Min((normalizedPosition * totalBins + Len(path)) \div (Len(path) * 2),
                  totalBins - 1))

\* an empty path gives 0 * (17 / 0) = NaN, and Math.min keeps NaN.  The code
\* multiplies by the double 17 / (2n); for the path lengths of the model the
\* floor of that product is the integer quotient, except at the all-right
\* path, where the product is 17 or just below it and Math.min gives 16
\* either way.
calculateFinalBin(path) ==
  LET normalizedPosition == position(path) + Len(path)
  IN IF Len(path) = 0 THEN NaN
     ELSE Num(Min((normalizedPosition * totalBins) \div (Len(path) * 2), totalBins - 1))

\* MULTIPLIERS[riskMode] is undefined for any other riskMode, and reading
\* its length throws a TypeError
calculateGameResultThrows(options) == options.riskMode \notin DOMAIN MULTIPLIERS

calculateGameResult(serverSeed, clientSeed, nonce, options) ==
  LET path == calculatePath(serverSeed, clientSeed, nonce, options.rows)
      finalBin == calculateFinalBin(path)
      multipliers == MULTIPLIERS[options.riskMode]
      finalMultiplier ==
        IF finalBin.t = "number"
        THEN Num(multipliers[Min(Max(0, finalBin.v), Len(multipliers) - 1) + 1])
        ELSE Undefined
  IN [clientSeed |-> clientSeed,
      serverSeed |-> serverSeed,
      hashedServerSeed |-> hashServerSeed(serverSeed),
      nonce |-> nonce,
      gameResult |-> finalBin,
      path |-> path,
      finalMultiplier |-> finalMultiplier]

\* JSON.stringify of a path: the text of each element, in order
JSONstringifyPath(path) == [i \in 1..Len(path) |-> ToString(path[i])]

\* a property of an object, undefined when the object does not have it
Prop(object, name) == IF name \in DOMAIN object THEN object[name] ELSE Undefined

\* verifyGameResult recomputing the outcome at the next nonce
verifyGameResult_NextNonce(serverSeed, clientSeed, nonce, options, reportedResult) ==
  LET expectedResult == calculateGameResult(serverSeed, clientSeed,
                                            Plus(nonce, Num(1)), options)
  IN /\ StrictEq(expectedResult.gameResult, Prop(reportedResult, "gameResult"))
     /\ StrictEq(expectedResult.finalMultiplier, Prop(reportedResult, "finalMultiplier"))
     /\ "path" \in DOMAIN reportedResult
     /\ JSONstringifyPath(expectedResult.path) = JSONstringifyPath(reportedResult.path)

\* verifyGameResult without the comparison of the multipliers
verifyGameResult_NoMultiplier(serverSeed, clientSeed, nonce, options, reportedResult) ==
  LET expectedResult == calculateGameResult(serverSeed, clientSeed, nonce, options)
  IN /\ StrictEq(expectedResult.gameResult, Prop(reportedResult, "gameResult"))
     /\ "path" \in DOMAIN reportedResult
     /\ JSONstringifyPath(expectedResult.path) = JSONstringifyPath(reportedResult.path)

\* verifyGameResult comparing the reported commitment with the hash of the
\* serverSeed as well
verifyGameResult_CheckCommitment(serverSeed, clientSeed, nonce, options, reportedResult) ==
  LET expectedResult == calculateGameResult(serverSeed, clientSeed, nonce, options)
  IN /\ StrictEq(expectedResult.gameResult, Prop(reportedResult, "gameResult"))
     /\ StrictEq(expectedResult.finalMultiplier, Prop(reportedResult, "finalMultiplier"))
     /\ "path" \in DOMAIN reportedResult
     /\ JSONstringifyPath(expectedResult.path) = JSONstringifyPath(reportedResult.path)
     /\ reportedResult.hashedServerSeed = hashServerSeed(serverSeed)

verifyGameResult(serverSeed, clientSeed, nonce, options, reportedResult) ==
  LET expectedResult == calculateGameResult(serverSeed, clientSeed, nonce, options)
  IN /\ StrictEq(expectedResult.gameResult, Prop(reportedResult, "gameResult"))
     /\ StrictEq(expectedResult.finalMultiplier, Prop(reportedResult, "finalMultiplier"))
     /\ "path" \in DOMAIN reportedResult
     /\ JSONstringifyPath(expectedResult.path) = JSONstringifyPath(reportedResult.path)

(***************************************************************************)
(* HTTP: GET /api/verify and the client's PlinkoService.verifyGameResult   *)
(***************************************************************************)
JSNumberFields == {"nonce", "gameResult", "finalMultiplier", "betAmount", "winAmount", "balance"}

\* JSON.parse(JSON.stringify(data)), as socket.io and the verify request
\* transport an object: undefined properties are dropped, NaN becomes null
JSONRoundTrip(data) ==
  [f \in {g \in DOMAIN data : ~(g \in JSNumberFields /\ data[g].t = "undefined")} |->
     IF f \in JSNumberFields /\ data[f].t = "NaN" THEN Null ELSE data[f]]

\* `${value}` of a number-valued property
TemplateText(value) == IF value.t = "number" THEN ToString(value.v) ELSE value.t

ParseRange == 0..32

\* parseInt of a query parameter: NaN unless the text is an integer
parseInt(text) ==
  IF \E n \in ParseRange : ToString(n) = text
  THEN Num(CHOOSE n \in ParseRange : ToString(n) = text)
  ELSE NaN

\* the query string built by PlinkoService.verifyGameResult
VerifyQuery(result) ==
  [serverSeed |-> IF "serverSeed" \in DOMAIN result THEN result.serverSeed ELSE 0,
   clientSeed |-> IF "clientSeed" \in DOMAIN result THEN result.clientSeed ELSE 0,
   nonce |-> TemplateText(Prop(result, "nonce")),
   riskMode |-> IF "riskMode" \in DOMAIN result THEN result.riskMode ELSE "undefined",
   rows |-> TemplateText(Prop(result, "rows")),
   result |-> JSONRoundTrip(result)]

\* the result parameter of a request is the object its JSON text parses to;
\* a text that is no JSON is kept as [text |-> ...], "" when the parameter is
\* missing
JSONparseThrows(result) == "text" \in DOMAIN result

\* app.get('/api/verify'): 400 on a missing parameter, 500 when JSON.parse
\* or the verification throws, otherwise 200 with the verdict
apiVerify(query) ==
  IF query.serverSeed = 0 \/ query.clientSeed = 0 \/ query.nonce = ""
       \/ query.riskMode = "" \/ query.rows = ""
       \/ (JSONparseThrows(query.result) /\ query.result.text = "")
  THEN [status |-> 400, verified |-> FALSE]
  ELSE LET options == [rows |-> parseInt(query.rows), riskMode |-> query.riskMode]
       IN IF JSONparseThrows(query.result) \/ calculateGameResultThrows(options)
          THEN [status |-> 500, verified |-> FALSE]
          ELSE [status |-> 200,
                verified |-> verifyGameResult(query.serverSeed, query.clientSeed,
                                              parseInt(query.nonce), options, query.result)]

\* PlinkoService.verifyGameResult: false when the response is not ok
clientVerifyGameResult(result) ==
  LET response == apiVerify(VerifyQuery(result))
  IN IF response.status # 200 THEN FALSE ELSE response.verified

(***************************************************************************)
(* server/src/index.ts: the socket handlers                                *)
(***************************************************************************)
RECURSIVE SentTo(_)
SentTo(ids) ==
  IF ids = {} THEN 0
  ELSE LET s == CHOOSE x \in ids : TRUE IN Len(outbox[s]) + SentTo(ids \ {s})

TotalSent == SentTo(Sockets)

\* a map that keeps one state for all its keys
MapSet_Shared(map, id, state) ==
  [x \in DOMAIN map \cup {id} |-> state]

\* userStates.set(id, state)
MapSet(map, id, state) ==
  [x \in DOMAIN map \cup {id} |-> IF x = id THEN state ELSE map[x]]

\* a delete that removes nothing
MapDelete_Keep(map, id) == map

\* userStates.delete(id)
MapDelete(map, id) == [x \in DOMAIN map \ {id} |-> map[x]]

\* socket.emit(event, data)
Emit(s, msgs) == [outbox EXCEPT ![s] = @ \o msgs]

Msg(event, data) == [event |-> event, data |-> data]

NoVerify == [socket |-> "", index |-> 0, rows |-> "", riskMode |-> "", verified |-> FALSE]

NoCall == [op |-> "none"]

Init ==
  /\ userStates = [x \in {} |-> 0]
  /\ conn = [s \in Sockets |-> "idle"]
  /\ outbox = [s \in Sockets |-> <<>>]
  /\ entropy = 0
  /\ lastVerify = NoVerify
  /\ fairCall = NoCall
  /\ fairRet = NoCall

\* the state a new connection gets: nonce 0, balance 1000
InitialUserState(serverSeed, clientSeed) ==
  [serverSeed |-> serverSeed, clientSeed |-> clientSeed,
   nonce |-> 0, balance |-> Num(10000)]

\* the game:init payload
InitData(serverSeed, clientSeed) ==
  [hashedServerSeed |-> hashServerSeed(serverSeed),
   clientSeed |-> clientSeed,
   balance |-> Num(10000)]

\* io.on('connection')
Connection(s) ==
  /\ conn[s] = "idle"
  /\ TotalSent + 1 <= MaxSent
  /\ LET serverSeed == generateServerSeed(entropy)
         clientSeed == generateClientSeed(entropy + 1)
     IN /\ userStates' = MapSet(userStates, s, InitialUserState(serverSeed, clientSeed))
        /\ outbox' = Emit(s, <<Msg("game:init", InitData(serverSeed, clientSeed))>>)
  /\ entropy' = entropy + 2
  /\ conn' = [conn EXCEPT ![s] = "open"]
  /\ UNCHANGED <<lastVerify, fairCall, fairRet>>

\* a rotation that resets the nonce and keeps the old secret
RotatedUserState_KeepSecret(userState, newServerSeed) ==
  [userState EXCEPT !.nonce = 0]

\* game:new-server-seed: the new secret is installed and the nonce reset
RotatedUserState(userState, newServerSeed) ==
  [userState EXCEPT !.serverSeed = newServerSeed, !.nonce = 0]

\* a rotation that reveals the new secret
RotationMessages_RevealNew(userState, newServerSeed) ==
  <<Msg("game:reveal-seed", [serverSeed |-> newServerSeed]),
    Msg("game:new-seed", [hashedServerSeed |-> hashServerSeed(newServerSeed)])>>

\* game:new-server-seed: the old secret is revealed, then the new commitment sent
RotationMessages(userState, newServerSeed) ==
  <<Msg("game:reveal-seed", [serverSeed |-> userState.serverSeed]),
    Msg("game:new-seed", [hashedServerSeed |-> hashServerSeed(newServerSeed)])>>

\* socket.on('game:new-server-seed')
NewServerSeed(s) ==
  /\ conn[s] # "idle"
  /\ IF s \in DOMAIN userStates
     THEN /\ TotalSent + 2 <= MaxSent
          /\ LET userState == userStates[s]
                 newServerSeed == generateServerSeed(entropy)
             IN /\ userStates' = MapSet(userStates, s,
                                        RotatedUserState(userState, newServerSeed))
                /\ outbox' = Emit(s, RotationMessages(userState, newServerSeed))
          /\ entropy' = entropy + 1
     ELSE UNCHANGED <<userStates, outbox, entropy>>
  /\ UNCHANGED <<conn, lastVerify, fairCall, fairRet>>

\* the client seeds a client can send: none (falsy), one of its own, or
\* the one the server told it last
ClientSeedInputs(s) ==
  {0, 901} \cup (IF s \in DOMAIN userStates THEN {userStates[s].clientSeed} ELSE {})

\* a client-seed change that keeps the nonce
ReseededUserState_KeepNonce(userState, clientSeed) ==
  [userState EXCEPT !.clientSeed = clientSeed]

\* a client-seed change that also restores the starting balance
ReseededUserState_ResetBalance(userState, clientSeed) ==
  [userState EXCEPT !.clientSeed = clientSeed, !.nonce = 0, !.balance = Num(10000)]

\* game:new-client-seed: the client seed is replaced and the nonce reset
ReseededUserState(userState, clientSeed) ==
  [userState EXCEPT !.clientSeed = clientSeed, !.nonce = 0]

\* an event sent with no payload: data is undefined in the handler
NoPayload == [payload |-> "undefined"]

\* the payloads of game:new-client-seed: { clientSeed } or none
ClientSeedPayloads(s) ==
  {[clientSeed |-> seed] : seed \in ClientSeedInputs(s)} \cup {NoPayload}

\* the body of the game:new-client-seed handler; with no payload, reading
\* data.clientSeed throws before anything is assigned or emitted
NewClientSeedHandler(s, data) ==
  /\ conn[s] # "idle"
  /\ IF s \in DOMAIN userStates /\ "clientSeed" \in DOMAIN data
     THEN /\ TotalSent + 1 <= MaxSent
          /\ LET userState == userStates[s]
                 clientSeed == IF data.clientSeed # 0 THEN data.clientSeed
                               ELSE generateClientSeed(entropy)
             IN /\ userStates' = MapSet(userStates, s,
                                        ReseededUserState(userState, clientSeed))
                /\ outbox' = Emit(s, <<Msg("game:new-seed", [clientSeed |-> clientSeed])>>)
          /\ entropy' = IF data.clientSeed # 0 THEN entropy ELSE entropy + 1
     ELSE UNCHANGED <<userStates, outbox, entropy>>
  /\ UNCHANGED conn

\* socket.on('game:new-client-seed')
NewClientSeed(s, data) ==
  /\ NewClientSeedHandler(s, data)
  /\ UNCHANGED <<lastVerify, fairCall, fairRet>>

\* the game:play payloads of the model: betAmount in tenths, riskMode ""
\* and rows Undefined when the property is absent
PlayPayloads ==
  {[betAmount |-> Num(100),   riskMode |-> "low",    rows |-> Num(2)],
   [betAmount |-> Num(10000), riskMode |-> "high",   rows |-> Num(3)],
   [betAmount |-> Num(100),   riskMode |-> "",       rows |-> Undefined],
   [betAmount |-> Num(0),     riskMode |-> "medium", rows |-> Num(2)],
   [betAmount |-> Num(20000000), riskMode |-> "medium", rows |-> Num(2)],
   [betAmount |-> Undefined,  riskMode |-> "medium", rows |-> Num(2)],
   [betAmount |-> Num(100),   riskMode |-> "extreme", rows |-> Num(2)],
   [betAmount |-> Num(100),   riskMode |-> "medium", rows |-> Num(-1)]}

\* a play that increments the nonce and keeps the balance
PlayedUserState_KeepBalance(userState, balance) ==
  [userState EXCEPT !.nonce = @ + 1]

\* a play that does not increment the nonce
PlayedUserState_NoIncrement(userState, balance) ==
  [userState EXCEPT !.balance = balance]

\* game:play: the balance is updated and the nonce incremented
PlayedUserState(userState, balance) ==
  [userState EXCEPT !.balance = balance, !.nonce = @ + 1]

\* the game:result payload: { ...result, betAmount, winAmount, balance }
ResultData(result, betAmount, winAmount, balance) ==
  [clientSeed |-> result.clientSeed,
   serverSeed |-> result.serverSeed,
   hashedServerSeed |-> result.hashedServerSeed,
   nonce |-> result.nonce,
   gameResult |-> result.gameResult,
   path |-> result.path,
   finalMultiplier |-> result.finalMultiplier,
   betAmount |-> betAmount,
   winAmount |-> winAmount,
   balance |-> balance]

\* socket.on('game:play')
Play(s, data) ==
  /\ conn[s] # "idle"
  /\ IF s \notin DOMAIN userStates
     THEN /\ TotalSent + 1 <= MaxSent
          /\ outbox' = Emit(s, <<Msg("game:error", [message |-> "User state not found"])>>)
          /\ UNCHANGED userStates
     ELSE LET userState == userStates[s]
              betAmount == data.betAmount
              gameOptions == [rows |-> OrElse(data.rows, Num(16)),
                              riskMode |-> IF data.riskMode # "" THEN data.riskMode
                                           ELSE "medium"]
          IN IF LessEq(betAmount, Num(0)) \/ Greater(betAmount, userState.balance)
             THEN /\ TotalSent + 1 <= MaxSent
                  /\ outbox' = Emit(s, <<Msg("game:error",
                         [message |-> "Invalid bet amount or insufficient balance"])>>)
                  /\ UNCHANGED userStates
             ELSE IF calculateGameResultThrows(gameOptions)
             THEN UNCHANGED <<userStates, outbox>>
             ELSE LET result == calculateGameResult(userState.serverSeed,
                                    userState.clientSeed, Num(userState.nonce), gameOptions)
                      winAmount == Times(betAmount, result.finalMultiplier)
                      balance == Plus(Minus(userState.balance, betAmount), winAmount)
                  IN /\ TotalSent + 1 <= MaxSent
                     /\ userStates' = MapSet(userStates, s,
                                             PlayedUserState(userState, balance))
                     /\ outbox' = Emit(s, <<Msg("game:result",
                            ResultData(result, betAmount, winAmount, balance))>>)
  /\ UNCHANGED <<conn, entropy, lastVerify, fairCall, fairRet>>

\* socket.on('disconnect')
Disconnect(s) ==
  /\ conn[s] = "open"
  /\ conn' = [conn EXCEPT ![s] = "closed"]
  /\ userStates' = MapDelete(userStates, s)
  /\ UNCHANGED <<outbox, entropy, lastVerify, fairCall, fairRet>>

\* the client passes the payload of the i-th message, a game:result it
\* received, to PlinkoService.verifyGameResult
ClientVerify(s, i) ==
  /\ i \in 1..Len(outbox[s])
  /\ outbox[s][i].event = "game:result"
  /\ LET result == JSONRoundTrip(outbox[s][i].data)
         query == VerifyQuery(result)
     IN lastVerify' = [socket |-> s, index |-> i,
                       rows |-> query.rows, riskMode |-> query.riskMode,
                       verified |-> clientVerifyGameResult(result)]
  /\ UNCHANGED <<userStates, conn, outbox, entropy, fairCall, fairRet>>

Next ==
  \/ \E s \in Sockets : Connection(s)
  \/ \E s \in Sockets : NewServerSeed(s)
  \/ \E s \in Sockets : \E data \in ClientSeedPayloads(s) : NewClientSeed(s, data)
  \/ \E s \in Sockets : \E data \in PlayPayloads : Play(s, data)
  \/ \E s \in Sockets : Disconnect(s)

\* the server and its connections
Spec == Init /\ [][Next]_vars

\* one client, which also verifies the results it received
ClientNext ==
  \/ Connection("a")
  \/ NewServerSeed("a")
  \/ \E data \in ClientSeedPayloads("a") : NewClientSeed("a", data)
  \/ \E data \in PlayPayloads : Play("a", data)
  \/ Disconnect("a")
  \/ \E i \in 1..MaxSent : ClientVerify("a", i)

SpecClient == Init /\ [][ClientNext]_vars

(***************************************************************************)
(* Direct calls of the derivation and verification functions               *)
(***************************************************************************)
FairServerSeeds == {100, 101}
FairClientSeeds == {200, 901}
FairNonces == {Num(n) : n \in 0..MaxFairNonce}
FairOptions == {[rows |-> Num(r), riskMode |-> m] : r \in 0..MaxFairRows, m \in DOMAIN MULTIPLIERS}

\* a reported result and the results that differ from it in one field
Tamperings(r) ==
  {r}
    \cup {[r EXCEPT !.path = [@ EXCEPT ![i] = 1 - @]] : i \in 1..Len(r.path)}
    \cup {[r EXCEPT !.path = Append(@, 0)]}
    \cup {[r EXCEPT !.gameResult = Plus(@, Num(1))], [r EXCEPT !.gameResult = Minus(@, Num(1))]}
    \cup {[r EXCEPT !.finalMultiplier = Plus(@, Num(1))]}
    \cup {[r EXCEPT !.hashedServerSeed = 0]}
    \cup {[r EXCEPT !.serverSeed = 0], [r EXCEPT !.clientSeed = 0]}
    \cup {[r EXCEPT !.nonce = Plus(@, Num(1))]}

FairInit ==
  /\ userStates = [x \in {} |-> 0]
  /\ conn = [s \in Sockets |-> "idle"]
  /\ outbox = [s \in Sockets |-> <<>>]
  /\ entropy = 0
  /\ lastVerify = NoVerify
  /\ fairCall = NoCall
  /\ fairRet = NoCall

\* calculateGameResult(serverSeed, clientSeed, nonce, options)
FairDerive(serverSeed, clientSeed, nonce, options) ==
  /\ fairCall = NoCall
  /\ fairCall' = [op |-> "calculateGameResult", serverSeed |-> serverSeed,
                  clientSeed |-> clientSeed, nonce |-> nonce, options |-> options]
  /\ fairRet' = [result |-> calculateGameResult(serverSeed, clientSeed, nonce, options)]
  /\ UNCHANGED <<userStates, conn, outbox, entropy, lastVerify>>

\* verifyGameResult(serverSeed, clientSeed, nonce, options, reportedResult)
FairVerify(serverSeed, clientSeed, nonce, options, reportedResult) ==
  /\ fairCall = NoCall
  /\ fairCall' = [op |-> "verifyGameResult", serverSeed |-> serverSeed,
                  clientSeed |-> clientSeed, nonce |-> nonce, options |-> options,
                  reportedResult |-> reportedResult]
  /\ fairRet' = [verified |-> verifyGameResult(serverSeed, clientSeed, nonce, options,
                                               reportedResult)]
  /\ UNCHANGED <<userStates, conn, outbox, entropy, lastVerify>>

FairNext ==
  \/ \E serverSeed \in FairServerSeeds, clientSeed \in FairClientSeeds,
        nonce \in FairNonces, options \in FairOptions :
       FairDerive(serverSeed, clientSeed, nonce, options)
  \/ \E serverSeed \in FairServerSeeds, clientSeed \in FairClientSeeds,
        nonce \in FairNonces, options \in FairOptions :
       \E reportedResult \in
            Tamperings(calculateGameResult(serverSeed, clientSeed, nonce, options))
              \cup {calculateGameResult(serverSeed, clientSeed, other, options) :
                      other \in FairNonces} :
         FairVerify(serverSeed, clientSeed, nonce, options, reportedResult)

SpecFair == FairInit /\ [][FairNext]_vars

(***************************************************************************)
(* Direct calls of calculateFinalBin                                       *)
(***************************************************************************)
\* the row counts of the board
BoardRows == {8, 12, 16}

PathLengths == (1..MaxPathLen) \cup BoardRows

\* calculateFinalBin(path)
FairBin(path) ==
  /\ fairCall = NoCall
  /\ fairCall' = [op |-> "calculateFinalBin", path |-> path]
  /\ fairRet' = [bin |-> calculateFinalBin(path)]
  /\ UNCHANGED <<userStates, conn, outbox, entropy, lastVerify>>

\* one call in a behaviour
BinNext ==
  /\ fairCall = NoCall
  /\ \E n \in PathLengths : \E path \in [1..n -> {0, 1}] : FairBin(path)

SpecBin == FairInit /\ [][BinNext]_vars

(***************************************************************************)
(* Verify requests: GET /api/verify and PlinkoService.verifyGameResult     *)
(***************************************************************************)
\* a result text that is no JSON, and a missing result parameter
Unparsable == [text |-> "{"]
NoResult == [text |-> ""]

\* results of the derivation, one of them with its bin changed
ApiResults ==
  LET r == calculateGameResult(100, 200, Num(0), [rows |-> Num(2), riskMode |-> "low"])
      h == calculateGameResult(100, 200, Num(1), [rows |-> Num(3), riskMode |-> "high"])
  IN {r, h, [r EXCEPT !.gameResult = Plus(@, Num(1))]}

\* the requests sent to the endpoint: "" is a missing parameter
ApiQueries ==
  [serverSeed : {100}, clientSeed : {200},
   nonce : {"0", "1", "abc", ""},
   rows : {"2", "3", "abc", ""},
   riskMode : {"low", "high", "extreme", ""},
   result : ApiResults \cup {Unparsable, NoResult}]

\* the objects handed to PlinkoService.verifyGameResult: results of the
\* derivation as they are, or with a rows and a riskMode property, genuine
\* or with the bin changed
ServiceResults ==
  LET derived == {[options |-> o,
                   result |-> calculateGameResult(100, 200, n, o)] :
                    n \in FairNonces,
                    o \in {x \in FairOptions : x.rows.v >= 1}}
  IN {d.result : d \in derived}
       \cup {d.result @@ [rows |-> d.options.rows, riskMode |-> d.options.riskMode] :
               d \in derived}
       \cup {d.result @@ [rows |-> d.options.rows, riskMode |-> "extreme"] :
               d \in derived}
       \cup {[d.result EXCEPT !.gameResult = Plus(@, Num(1))]
                @@ [rows |-> d.options.rows, riskMode |-> d.options.riskMode] :
               d \in derived}

\* GET /api/verify?serverSeed=...&result=...
ApiRequest(query) ==
  /\ fairCall = NoCall
  /\ fairCall' = [op |-> "GET /api/verify", query |-> query]
  /\ fairRet' = apiVerify(query)
  /\ UNCHANGED <<userStates, conn, outbox, entropy, lastVerify>>

\* PlinkoService.verifyGameResult(result): the promise always resolves, to
\* false when the request failed
ServiceVerify(result) ==
  /\ fairCall = NoCall
  /\ fairCall' = [op |-> "PlinkoService.verifyGameResult",
                  query |-> VerifyQuery(result)]
  /\ fairRet' = [settled |-> "resolved", value |-> clientVerifyGameResult(result)]
  /\ UNCHANGED <<userStates, conn, outbox, entropy, lastVerify>>

ApiNext ==
  \/ \E query \in ApiQueries : ApiRequest(query)
  \/ \E result \in ServiceResults : ServiceVerify(result)

SpecApi == FairInit /\ [][ApiNext]_vars

(***************************************************************************)
(* One client whose game:new-client-seed requests are recorded              *)
(***************************************************************************)
\* game:new-client-seed arrives and its handler runs; fairCall keeps the
\* request and its number
SeedRequest(s, data) ==
  /\ NewClientSeedHandler(s, data)
  /\ LET seq == IF fairCall = NoCall THEN 0 ELSE fairCall.seq
     IN /\ seq < MaxRequests
        /\ fairCall' = [op |-> "game:new-client-seed", socket |-> s,
                        data |-> data, seq |-> seq + 1]
  /\ UNCHANGED <<lastVerify, fairRet>>

SeedNext ==
  \/ Connection("a")
  \/ NewServerSeed("a")
  \/ \E data \in PlayPayloads : Play("a", data)
  \/ \E data \in ClientSeedPayloads("a") : SeedRequest("a", data)

SpecSeed == Init /\ [][SeedNext]_vars

(***************************************************************************)
(* Properties                                                              *)
(***************************************************************************)
\* the commitment a client was sent last: the hashedServerSeed of the last
\* game:init or game:new-seed of the messages, 0 when there is none
RECURSIVE LastCommitment(_)
LastCommitment(box) ==
  IF box = <<>> THEN 0
  ELSE LET m == box[Len(box)]
       IN IF m.event \in {"game:init", "game:new-seed"} /\ "hashedServerSeed" \in DOMAIN m.data
          THEN m.data.hashedServerSeed
          ELSE LastCommitment(SubSeq(box, 1, Len(box) - 1))

\* the index of the last game:init, game:new-seed or game:result before
\* message j, 0 when there is none
RECURSIVE PreviousSeedOrPlay(_, _)
PreviousSeedOrPlay(box, j) ==
  IF j <= 1 THEN 0
  ELSE IF box[j - 1].event \in {"game:init", "game:new-seed", "game:result"} THEN j - 1
  ELSE PreviousSeedOrPlay(box, j - 1)

\* C1: the active serverSeed of a session is in no message sent to its
\* client, and no message but game:reveal-seed carries a serverSeed.
C1_SecretNeverSent ==
  \A s \in Sockets : \A i \in 1..Len(outbox[s]) :
    LET m == outbox[s][i]
    IN /\ m.event # "game:reveal-seed" => "serverSeed" \notin DOMAIN m.data
       /\ s \in DOMAIN userStates /\ "serverSeed" \in DOMAIN m.data
            => m.data.serverSeed # userStates[s].serverSeed

\* C2: no two accepted plays of a session are derived from the same
\* (serverSeed, clientSeed, nonce).
C2_NoTripleReuse ==
  \A s \in Sockets : \A i, j \in 1..Len(outbox[s]) :
    LET a == outbox[s][i]
        b == outbox[s][j]
    IN i < j /\ a.event = "game:result" /\ b.event = "game:result"
         => <<a.data.serverSeed, a.data.clientSeed, a.data.nonce>>
              # <<b.data.serverSeed, b.data.clientSeed, b.data.nonce>>

\* C3: the nonce of an accepted play is 0 when it is the first play after
\* game:init or after a seed change, and otherwise 1 more than the nonce of
\* the previous accepted play; the nonce a game:result reports is the one its
\* path was derived with.
C3_NonceSequence ==
  \A s \in Sockets : \A j \in 1..Len(outbox[s]) :
    LET box == outbox[s]
        m == box[j]
        i == PreviousSeedOrPlay(box, j)
    IN m.event = "game:result"
         => /\ i > 0
            /\ IF box[i].event = "game:result"
               THEN m.data.nonce = Plus(box[i].data.nonce, Num(1))
               ELSE m.data.nonce = Num(0)
            /\ m.data.path = calculatePath(m.data.serverSeed, m.data.clientSeed,
                                           m.data.nonce, Num(Len(m.data.path)))
            /\ s \in DOMAIN userStates /\ PreviousSeedOrPlay(box, Len(box) + 1) = j
                 => Num(userStates[s].nonce) = Plus(m.data.nonce, Num(1))

\* three plays in a row, and a play after a seed change that followed a play
C3_Witness ==
  \E s \in Sockets : \E j \in 1..Len(outbox[s]) :
    /\ outbox[s][j].event = "game:result"
    /\ outbox[s][j].data.nonce = Num(2)
    /\ Len(outbox[s][j].data.path) > 0

\* C6: a genuine game:result payload passed to PlinkoService.verifyGameResult
\* reaches /api/verify with the rows the outcome was derived with and a known
\* riskMode, and the call resolves to true.
C6_GenuineResultVerifies ==
  lastVerify.index # 0
    => LET data == outbox[lastVerify.socket][lastVerify.index].data
       IN /\ lastVerify.verified
          /\ lastVerify.riskMode \in DOMAIN MULTIPLIERS
          /\ Len(data.path) > 0 => lastVerify.rows = ToString(Len(data.path))

\* C8: when a game:reveal-seed is emitted, the revealed secret hashes to the
\* commitment the client was sent last, the next message is a game:new-seed,
\* and its hashedServerSeed is the hash of the secret now installed and not
\* the hash of the revealed one.
C8_RevealThenCommit ==
  [][\A s \in Sockets :
       LET n == Len(outbox[s])
       IN Len(outbox'[s]) > n /\ outbox'[s][n + 1].event = "game:reveal-seed"
            => /\ hashServerSeed(outbox'[s][n + 1].data.serverSeed) = LastCommitment(outbox[s])
               /\ Len(outbox'[s]) = n + 2
               /\ outbox'[s][n + 2].event = "game:new-seed"
               /\ s \in DOMAIN userStates'
               /\ outbox'[s][n + 2].data.hashedServerSeed
                    = hashServerSeed(userStates'[s].serverSeed)
               /\ outbox'[s][n + 2].data.hashedServerSeed
                    # hashServerSeed(outbox'[s][n + 1].data.serverSeed)]_vars

\* a second rotation: the secret revealed was committed in a game:new-seed
C8_Witness ==
  \E s \in Sockets : \E i, j \in 1..Len(outbox[s]) :
    /\ i < j
    /\ outbox[s][i].event = "game:reveal-seed"
    /\ outbox[s][j].event = "game:reveal-seed"

\* C9: a step that changes the serverSeed or the clientSeed of a session
\* leaves its nonce 0.
C9_SeedChangeResetsNonce ==
  [][\A s \in DOMAIN userStates \cap DOMAIN userStates' :
       userStates'[s].serverSeed # userStates[s].serverSeed
         \/ userStates'[s].clientSeed # userStates[s].clientSeed
         => userStates'[s].nonce = 0]_vars

\* a seed change right after a play: the nonce was 1 or more and is 0
C9_Witness ==
  \E s \in DOMAIN userStates :
    LET n == Len(outbox[s])
    IN /\ n >= 2
       /\ outbox[s][n].event = "game:new-seed"
       /\ \E i \in 1..(n - 1) :
            /\ outbox[s][i].event = "game:result"
            /\ PreviousSeedOrPlay(outbox[s], n) = i
            /\ userStates[s].clientSeed # outbox[s][i].data.clientSeed
                 \/ userStates[s].serverSeed # outbox[s][i].data.serverSeed
       /\ userStates[s].nonce = 0

\* C10: the commitment a client was sent last is the hash of the session's
\* serverSeed; every play was derived from the secret whose commitment had
\* been sent before it; the hashedServerSeed of an outcome is the hash of its
\* serverSeed.
C10_CommitmentMatchesSecret ==
  \A s \in Sockets :
    /\ s \in DOMAIN userStates
         => LastCommitment(outbox[s]) = hashServerSeed(userStates[s].serverSeed)
    /\ \A j \in 1..Len(outbox[s]) :
         outbox[s][j].event = "game:result"
           => /\ outbox[s][j].data.hashedServerSeed
                   = hashServerSeed(outbox[s][j].data.serverSeed)
              /\ LastCommitment(SubSeq(outbox[s], 1, j - 1))
                   = outbox[s][j].data.hashedServerSeed

\* a play after a rotation
C10_Witness ==
  \E s \in DOMAIN userStates : \E i, j \in 1..Len(outbox[s]) :
    /\ i < j
    /\ outbox[s][i].event = "game:reveal-seed"
    /\ outbox[s][j].event = "game:result"

C5_VerifyIffAllEqual ==
  fairCall.op = "verifyGameResult"
    => LET expected == calculateGameResult(fairCall.serverSeed, fairCall.clientSeed,
                                           fairCall.nonce, fairCall.options)
           reported == fairCall.reportedResult
       IN /\ fairRet.verified
               <=> /\ StrictEq(expected.gameResult, reported.gameResult)
                   /\ StrictEq(expected.finalMultiplier, reported.finalMultiplier)
                   /\ Len(expected.path) = Len(reported.path)
                   /\ \A i \in 1..Len(expected.path) : expected.path[i] = reported.path[i]
          /\ reported.path # expected.path
               \/ reported.gameResult # expected.gameResult
               \/ reported.finalMultiplier # expected.finalMultiplier
               => ~fairRet.verified

\* a result with one path bit flipped and nothing else changed was rejected
C5_Witness ==
  /\ fairCall.op = "verifyGameResult"
  /\ LET expected == calculateGameResult(fairCall.serverSeed, fairCall.clientSeed,
                                         fairCall.nonce, fairCall.options)
         reported == fairCall.reportedResult
     IN /\ reported.gameResult = expected.gameResult
        /\ reported.finalMultiplier = expected.finalMultiplier
        /\ Len(reported.path) = Len(expected.path)
        /\ Cardinality({i \in 1..Len(expected.path) : reported.path[i] # expected.path[i]}) = 1
  /\ ~fairRet.verified

\* the message a handler appended to the messages of socket s in this step
Appended(s) == SubSeq(outbox'[s], Len(outbox[s]) + 1, Len(outbox'[s]))

BetError == Msg("game:error", [message |-> "Invalid bet amount or insufficient balance"])

\* C11: a game:play whose betAmount is a number that is 0 or less, or more
\* than the balance of the session, is answered with one game:error and
\* nothing else, and the nonce, the balance and both seeds of every session
\* are what they were.
C11_BadBetRejected ==
  [][\A s \in DOMAIN userStates : \A data \in PlayPayloads :
       /\ data.betAmount.t = "number"
       /\ \/ data.betAmount.v <= 0
          \/ /\ userStates[s].balance.t = "number"
             /\ data.betAmount.v > userStates[s].balance.v
       /\ Play(s, data)
       => /\ Appended(s) = <<BetError>>
          /\ userStates' = userStates]_vars

\* a bet was rejected after a play: the session still has the nonce and the
\* balance which that play left
C11_Witness ==
  \E s \in DOMAIN userStates :
    LET n == Len(outbox[s])
    IN /\ n >= 2
       /\ outbox[s][n] = BetError
       /\ outbox[s][n - 1].event = "game:result"
       /\ Num(userStates[s].nonce) = Plus(outbox[s][n - 1].data.nonce, Num(1))
       /\ userStates[s].balance = outbox[s][n - 1].data.balance
       /\ userStates[s].balance.t = "number"

\* C12: a game:play whose betAmount is missing or not a number produces no
\* game:result, leaves the nonce as it was, and leaves the balance a number
\* equal to its previous value.
C12_NonNumericBetRejected ==
  [][\A s \in DOMAIN userStates : \A data \in PlayPayloads :
       data.betAmount.t # "number" /\ Play(s, data)
       => /\ \A i \in 1..Len(Appended(s)) : Appended(s)[i].event # "game:result"
          /\ userStates'[s].nonce = userStates[s].nonce
          /\ userStates'[s].balance.t = "number"
          /\ userStates'[s].balance = userStates[s].balance]_vars

\* C13: a game:play whose rows is missing or not a positive integer, or
\* whose riskMode is missing or not one of low, medium, high, is answered
\* with a game:error and nothing else, and the nonce and the balance of the
\* session are what they were.
C13_BadOptionsRejected ==
  [][\A s \in DOMAIN userStates : \A data \in PlayPayloads :
       /\ \/ data.rows.t # "number"
          \/ data.rows.v < 1
          \/ data.riskMode \notin {"low", "medium", "high"}
       /\ Play(s, data)
       => /\ Len(Appended(s)) = 1
          /\ Appended(s)[1].event = "game:error"
          /\ userStates'[s].nonce = userStates[s].nonce
          /\ userStates'[s].balance = userStates[s].balance]_vars

\* C14: a game:play handler runs to completion before the next event is
\* handled, so reading the nonce, deriving and storing nonce + 1 are one
\* step: a step that emits a game:result derived it with the nonce stored
\* before the step and stores that nonce + 1, and two results of a session
\* with no seed change between them report different nonces.
C14_PlayIsAtomic ==
  /\ [][\A s \in Sockets :
          Appended(s) # <<>> /\ Appended(s)[1].event = "game:result"
          => /\ s \in DOMAIN userStates /\ s \in DOMAIN userStates'
             /\ Appended(s)[1].data.nonce = Num(userStates[s].nonce)
             /\ userStates'[s].nonce = userStates[s].nonce + 1]_vars
  /\ [](\A s \in Sockets : \A i, j \in 1..Len(outbox[s]) :
          /\ i < j
          /\ outbox[s][i].event = "game:result"
          /\ outbox[s][j].event = "game:result"
          /\ \A k \in (i + 1)..(j - 1) : outbox[s][k].event # "game:new-seed"
          => outbox[s][i].data.nonce # outbox[s][j].data.nonce)

\* plays of two sessions interleaved: one session played twice with no seed
\* change between, the other played as well
C14_Witness ==
  \E s, t \in Sockets :
    /\ s # t
    /\ \E i \in 1..Len(outbox[s]) :
         /\ i < Len(outbox[s])
         /\ outbox[s][i].event = "game:result"
         /\ outbox[s][i + 1].event = "game:result"
         /\ outbox[s][i].data.nonce = Num(0)
         /\ outbox[s][i + 1].data.nonce = Num(1)
    /\ \E k \in 1..Len(outbox[t]) : outbox[t][k].event = "game:result"

\* C17: a game:result carries winAmount = betAmount * finalMultiplier and
\* balance = (balance before the play) - betAmount + winAmount, and the
\* balance stored for the session is the balance reported.  Amounts and
\* multipliers are in tenths; a product or sum with a NaN or undefined
\* operand is NaN.
C17_WinAndBalance ==
  [][\A s \in Sockets :
       Appended(s) # <<>> /\ Appended(s)[1].event = "game:result"
       => LET d == Appended(s)[1].data
              before == userStates[s].balance
          IN /\ IF d.betAmount.t = "number" /\ d.finalMultiplier.t = "number"
                THEN /\ d.winAmount.t = "number"
                     /\ d.winAmount.v * 10 = d.betAmount.v * d.finalMultiplier.v
                ELSE d.winAmount = NaN
             /\ IF before.t = "number" /\ d.betAmount.t = "number"
                     /\ d.winAmount.t = "number"
                THEN /\ d.balance.t = "number"
                     /\ d.balance.v = before.v - d.betAmount.v + d.winAmount.v
                ELSE d.balance = NaN
             /\ userStates'[s].balance = d.balance]_vars

\* a play was won or lost: the balance reported is a number that is not the
\* starting balance, and it is the balance stored
C17_Witness ==
  \E s \in DOMAIN userStates :
    LET n == Len(outbox[s])
    IN /\ n >= 1
       /\ outbox[s][n].event = "game:result"
       /\ outbox[s][n].data.winAmount.t = "number"
       /\ outbox[s][n].data.winAmount # outbox[s][n].data.betAmount
       /\ outbox[s][n].data.balance # Num(10000)
       /\ userStates[s].balance = outbox[s][n].data.balance

\* an event of socket s is handled in this step
HandledFor(s) ==
  \/ Connection(s)
  \/ NewServerSeed(s)
  \/ \E data \in ClientSeedPayloads(s) : NewClientSeed(s, data)
  \/ \E data \in PlayPayloads : Play(s, data)
  \/ Disconnect(s)

\* the state and the messages of every connection but s are what they were
OthersUntouched(s) ==
  \A t \in Sockets \ {s} :
    /\ t \in DOMAIN userStates' <=> t \in DOMAIN userStates
    /\ t \in DOMAIN userStates => userStates'[t] = userStates[t]
    /\ outbox'[t] = outbox[t]

\* the state of s is new: nonce 0, the starting balance, and seeds that no
\* session had
FreshState(s) ==
  /\ s \in DOMAIN userStates'
  /\ userStates'[s].nonce = 0
  /\ userStates'[s].balance = Num(10000)
  /\ \A t \in DOMAIN userStates \ {s} :
       /\ userStates'[s].serverSeed # userStates[t].serverSeed
       /\ userStates'[s].clientSeed # userStates[t].clientSeed

\* C19: an event handled for one connection leaves the state of every other
\* connection as it was, and the state a new connection gets is fresh: nonce
\* 0, the starting balance, and seeds that no existing session has.
C19_SessionIsolation ==
  [][\A s \in Sockets :
       /\ OthersUntouched(s) \/ ~HandledFor(s)
       /\ FreshState(s) \/ ~Connection(s)]_vars

\* two sessions side by side: one has played and changed a seed, the other,
\* connected second, still has the state it was created with
C19_Witness ==
  \E s, t \in DOMAIN userStates :
    /\ s # t
    /\ userStates[s].nonce > 0
    /\ userStates[s].balance # Num(10000)
    /\ userStates[t].nonce = 0
    /\ userStates[t].balance = Num(10000)
    /\ userStates[t].serverSeed > userStates[s].serverSeed
    /\ Len(outbox[t]) = 1

\* C15: for a 0/1 path of 8, 12 or 16 rows calculateFinalBin returns an
\* integer from 0 to 16.
C15_BinBounds ==
  fairCall.op = "calculateFinalBin" /\ Len(fairCall.path) \in BoardRows
    => /\ fairRet.bin.t = "number"
       /\ fairRet.bin.v \in 0..16

\* the all-right path of 16 rows, where the scaled position is 17, landed in
\* bin 16, and the all-left path lands in bin 0
C15_Witness ==
  /\ fairCall.op = "calculateFinalBin"
  /\ fairCall.path = [i \in 1..16 |-> 1]
  /\ fairRet.bin = Num(16)
  /\ calculateFinalBin([i \in 1..16 |-> 0]) = Num(0)

\* C16: each of the tables low, medium and high has 17 entries, the bin
\* count of calculateFinalBin; every entry is positive; entry i equals entry
\* 16 - i for i in 0..16, so a derivation is paid the same in a bin and in
\* the bin that mirrors it.
C16_TableIntegrity ==
  /\ \A riskMode \in {"low", "medium", "high"} :
       /\ riskMode \in DOMAIN MULTIPLIERS
       /\ Len(MULTIPLIERS[riskMode]) = 17
       /\ Len(MULTIPLIERS[riskMode]) = totalBins
       /\ \A i \in 0..16 :
            /\ MULTIPLIERS[riskMode][i + 1] > 0
            /\ MULTIPLIERS[riskMode][i + 1] = MULTIPLIERS[riskMode][(16 - i) + 1]
  /\ fairCall.op = "calculateGameResult" /\ fairRet.result.gameResult.t = "number"
       => /\ fairRet.result.finalMultiplier.t = "number"
          /\ fairRet.result.finalMultiplier.v > 0
          /\ fairRet.result.finalMultiplier.v
               = MULTIPLIERS[fairCall.options.riskMode][(16 - fairRet.result.gameResult.v) + 1]

\* a derivation landed right of the centre and was paid the entry of the
\* table that mirrors its bin
C16_Witness ==
  /\ fairCall.op = "calculateGameResult"
  /\ fairRet.result.gameResult.t = "number"
  /\ fairRet.result.gameResult.v > 8
  /\ fairRet.result.finalMultiplier
       = Num(MULTIPLIERS[fairCall.options.riskMode][fairRet.result.gameResult.v + 1])

\* nonce and rows are integers, riskMode is a tier, result is an object
WellFormedQuery(query) ==
  /\ parseInt(query.nonce).t = "number"
  /\ parseInt(query.rows).t = "number"
  /\ query.riskMode \in {"low", "medium", "high"}
  /\ "text" \notin DOMAIN query.result

\* C18: a well-formed verify request whose claimed outcome does not match is
\* answered 200 with verified = false, and PlinkoService.verifyGameResult
\* resolves to false for it; a request with a missing or non-numeric nonce
\* or rows, an unknown riskMode or an unparsable result is answered with an
\* error status, and PlinkoService.verifyGameResult does not resolve to a
\* verdict for it.
C18_MismatchIsNotAnError ==
  /\ fairCall.op = "GET /api/verify"
       => IF WellFormedQuery(fairCall.query)
          THEN fairRet.status = 200
          ELSE fairRet.status # 200
  /\ fairCall.op = "PlinkoService.verifyGameResult"
       => IF WellFormedQuery(fairCall.query)
          THEN fairRet.settled = "resolved"
          ELSE fairRet.settled # "resolved"

\* C20: for a path of n >= 1 rows, with offset = (number of 1s) - (number
\* of 0s) and normalized = offset + n, calculateFinalBin returns the
\* quotient of normalized * 17 by 2n, truncated, clamped to 0..16.
C20_FoldsAsReference ==
  fairCall.op = "calculateFinalBin" /\ Len(fairCall.path) >= 1
    => LET path == fairCall.path
           n == Len(path)
           ones == Cardinality({i \in 1..n : path[i] = 1})
           zeros == Cardinality({i \in 1..n : path[i] = 0})
           normalized == (ones - zeros) + n
           scaled == (normalized * 17) \div (2 * n)
       IN fairRet.bin = Num(IF scaled < 0 THEN 0 ELSE IF scaled > 16 THEN 16 ELSE scaled)

\* two rights and a left: normalized 4 of 6, scaled 11.33, bin 11
C20_Witness ==
  /\ fairCall.op = "calculateFinalBin"
  /\ fairCall.path = <<1, 0, 1>>
  /\ fairRet.bin = Num(11)

\* C21: the path of a derivation has exactly rows elements, each 0 or 1;
\* element i (from 0) is 1 when the sample of serverSeed:clientSeed:(nonce+i)
\* is 0.5 or more, and 0 otherwise.  A sample is an 8-bit word v read as
\* v / 255.
C21_PathFromSamples ==
  fairCall.op = "calculateGameResult"
    => LET path == fairRet.result.path
       IN /\ Len(path) = fairCall.options.rows.v
          /\ \A i \in 0..(fairCall.options.rows.v - 1) :
               LET v == deterministicRandom(fairCall.serverSeed, fairCall.clientSeed,
                                            Num(fairCall.nonce.v + i))
               IN /\ path[i + 1] \in {0, 1}
                  /\ path[i + 1] = 1 <=> 2 * v >= 255

\* a derivation of MaxFairRows rows went left in one row and right in another
C21_Witness ==
  /\ fairCall.op = "calculateGameResult"
  /\ Len(fairRet.result.path) = MaxFairRows
  /\ \E i, j \in 1..MaxFairRows :
       fairRet.result.path[i] = 0 /\ fairRet.result.path[j] = 1

\* C22: for each tier and every bin calculateFinalBin produces, the
\* finalMultiplier of calculateGameResult is a number, the entry of the
\* tier's table at the bin clamped into 0..(length - 1).
C22_MultiplierFromTable ==
  fairCall.op = "calculateGameResult"
    => LET table == MULTIPLIERS[fairCall.options.riskMode]
           bin == fairRet.result.gameResult
           index == IF bin.t # "number" \/ bin.v < 0 THEN 0
                    ELSE IF bin.v > Len(table) - 1 THEN Len(table) - 1
                    ELSE bin.v
       IN /\ fairRet.result.finalMultiplier.t = "number"
          /\ fairRet.result.finalMultiplier.v = table[index + 1]

NotFoundError == Msg("game:error", [message |-> "User state not found"])

\* C23: a closed connection has no session state; a game:play handled for
\* it is answered with game:error 'User state not found' and nothing else,
\* a game:new-server-seed or game:new-client-seed handled for it emits
\* nothing, and none of them creates state for it.
C23_ClosedHasNoSession ==
  /\ [](\A s \in Sockets : conn[s] = "closed" => s \notin DOMAIN userStates)
  /\ [][\A s \in Sockets :
          conn[s] = "closed"
          => /\ s \notin DOMAIN userStates'
             /\ Appended(s) = <<NotFoundError>>
                  \/ ~(\E data \in PlayPayloads : Play(s, data))
             /\ Appended(s) = <<>>
                  \/ ~(\/ NewServerSeed(s)
                       \/ \E data \in ClientSeedPayloads(s) :
                            NewClientSeed(s, data))]_vars

\* a session that had played was closed, and a play sent after that was
\* answered 'User state not found'
C23_Witness ==
  \E s \in Sockets :
    LET n == Len(outbox[s])
    IN /\ conn[s] = "closed"
       /\ s \notin DOMAIN userStates
       /\ n >= 3
       /\ outbox[s][n] = NotFoundError
       /\ outbox[s][n - 1].event = "game:result"

\* C24: a serverSeed that was emitted in a game:reveal-seed is the seed of
\* no game:result emitted to that session after it.
C24_RevealedSecretRetired ==
  \A s \in Sockets : \A i, j \in 1..Len(outbox[s]) :
    /\ i < j
    /\ outbox[s][i].event = "game:reveal-seed"
    /\ outbox[s][j].event = "game:result"
    => outbox[s][j].data.serverSeed # outbox[s][i].data.serverSeed

\* a play, the rotation that revealed its secret, and a play after it that
\* was derived from the secret now stored
C24_Witness ==
  \E s \in DOMAIN userStates : \E i, j, k \in 1..Len(outbox[s]) :
    /\ i < j /\ j < k
    /\ outbox[s][i].event = "game:result"
    /\ outbox[s][j].event = "game:reveal-seed"
    /\ outbox[s][k].event = "game:result"
    /\ outbox[s][i].data.serverSeed = outbox[s][j].data.serverSeed
    /\ outbox[s][k].data.serverSeed = userStates[s].serverSeed

\* C25: a game:new-client-seed of a session is answered with one
\* game:new-seed that carries the clientSeed now stored, and the nonce is 0;
\* when the request has no payload, or a payload with no clientSeed or an
\* empty one, the stored seed is one the server generated, otherwise it is
\* the seed of the request.
C25_ClientSeedConfirmed ==
  [][\A data \in ClientSeedPayloads("a") :
       "a" \in DOMAIN userStates /\ SeedRequest("a", data)
       => /\ Appended("a")
               = <<Msg("game:new-seed", [clientSeed |-> userStates'["a"].clientSeed])>>
          /\ userStates'["a"].nonce = 0
          /\ userStates'["a"].clientSeed
               = IF data = NoPayload \/ data.clientSeed = 0
                 THEN generateClientSeed(entropy)
                 ELSE data.clientSeed]_vars

\* C26: when two results of a session were derived from the same serverSeed
\* and clientSeed with nonces n and n + 1 and the same number of rows
\* r >= 2, row i of the second path is row i + 1 of the first, for each of
\* the first r - 1 rows of the second.
C26_OverlappingWindows ==
  \A s \in Sockets : \A i, j \in 1..Len(outbox[s]) :
    LET a == outbox[s][i].data
        b == outbox[s][j].data
    IN /\ outbox[s][i].event = "game:result"
       /\ outbox[s][j].event = "game:result"
       /\ a.serverSeed = b.serverSeed
       /\ a.clientSeed = b.clientSeed
       /\ b.nonce = Plus(a.nonce, Num(1))
       /\ Len(a.path) = Len(b.path)
       /\ Len(a.path) >= 2
       => \A k \in 1..(Len(a.path) - 1) : b.path[k] = a.path[k + 1]

\* two plays in a row on the same seeds, with different paths of 2 or more
\* rows
C26_Witness ==
  \E s \in Sockets : \E i \in 1..Len(outbox[s]) :
    /\ i < Len(outbox[s])
    /\ outbox[s][i].event = "game:result"
    /\ outbox[s][i + 1].event = "game:result"
    /\ outbox[s][i + 1].data.nonce = Plus(outbox[s][i].data.nonce, Num(1))
    /\ Len(outbox[s][i].data.path) >= 2
    /\ Len(outbox[s][i + 1].data.path) = Len(outbox[s][i].data.path)
    /\ outbox[s][i + 1].data.path # outbox[s][i].data.path

\* the derived result the reported one agrees with in gameResult,
\* finalMultiplier and path
SameOutcome(reported, derived) ==
  /\ reported.gameResult = derived.gameResult
  /\ reported.finalMultiplier = derived.finalMultiplier
  /\ reported.path = derived.path

\* C27: the verdict of verifyGameResult for a reported result is its verdict
\* for the same result with the clientSeed, serverSeed, hashedServerSeed and
\* nonce fields overwritten; a reported result that agrees with the derived
\* one in gameResult, finalMultiplier and path is verified when rows is 1 or
\* more, also when its hashedServerSeed is not the hash of the serverSeed.
C27_VerdictIgnoresSeedFields ==
  fairCall.op = "verifyGameResult"
    => LET derived == calculateGameResult(fairCall.serverSeed, fairCall.clientSeed,
                                          fairCall.nonce, fairCall.options)
           outcome == [fairCall.reportedResult EXCEPT
                         !.clientSeed = 0, !.serverSeed = 0,
                         !.hashedServerSeed = 0, !.nonce = Num(0)]
       IN /\ fairRet.verified
               <=> verifyGameResult(fairCall.serverSeed, fairCall.clientSeed,
                                  fairCall.nonce, fairCall.options, outcome)
          /\ SameOutcome(fairCall.reportedResult, derived)
               => fairRet.verified = (fairCall.options.rows.v >= 1)

\* a result whose hashedServerSeed is not the hash of its serverSeed was
\* verified
C27_Witness ==
  /\ fairCall.op = "verifyGameResult"
  /\ fairCall.reportedResult.hashedServerSeed # hashServerSeed(fairCall.serverSeed)
  /\ fairCall.reportedResult.serverSeed = fairCall.serverSeed
  /\ fairRet.verified

\* C28: the balance of a session is never a negative number, and no
\* game:result reports one.
C28_BalanceNeverNegative ==
  /\ \A s \in DOMAIN userStates :
       ~(userStates[s].balance.t = "number" /\ userStates[s].balance.v < 0)
  /\ \A s \in Sockets : \A i \in 1..Len(outbox[s]) :
       outbox[s][i].event = "game:result"
         => ~(outbox[s][i].data.balance.t = "number" /\ outbox[s][i].data.balance.v < 0)

\* a play with a numeric bet was lost, and a bet above the balance left was
\* rejected: the balance is a number below the starting balance and not
\* below 0
C28_Witness ==
  \E s \in DOMAIN userStates :
    LET n == Len(outbox[s])
    IN /\ n >= 2
       /\ outbox[s][n] = BetError
       /\ outbox[s][n - 1].event = "game:result"
       /\ outbox[s][n - 1].data.betAmount.t = "number"
       /\ userStates[s].balance.t = "number"
       /\ userStates[s].balance.v < 10000
       /\ userStates[s].balance.v >= 0

\* the path with every decision flipped
Mirrored(path) == [i \in 1..Len(path) |-> 1 - path[i]]

\* C29: for a 0/1 path of 8, 12 or 16 rows that lands in bin b, the path
\* with every decision flipped lands in bin 16 - b, and in every tier the
\* two bins pay the same multiplier.
C29_MirrorSymmetry ==
  fairCall.op = "calculateFinalBin" /\ Len(fairCall.path) \in BoardRows
    => LET b == fairRet.bin
           m == calculateFinalBin(Mirrored(fairCall.path))
       IN /\ b.t = "number" /\ m.t = "number"
          /\ m.v = 16 - b.v
          /\ \A riskMode \in DOMAIN MULTIPLIERS :
               MULTIPLIERS[riskMode][m.v + 1] = MULTIPLIERS[riskMode][b.v + 1]

\* a path of 8 rows with one right landed in bin 2, and its mirror image,
\* with seven rights, lands in bin 14
C29_Witness ==
  /\ fairCall.op = "calculateFinalBin"
  /\ fairCall.path = <<1, 0, 0, 0, 0, 0, 0, 0>>
  /\ fairRet.bin = Num(2)
  /\ calculateFinalBin(Mirrored(fairCall.path)) = Num(14)

\* C30: a step that rotates the server seed of a session (it emits
\* game:reveal-seed) leaves its clientSeed and balance as they were; a step
\* that changes its client seed (it emits game:new-seed with a clientSeed)
\* leaves its serverSeed, the commitment last sent and its balance as they
\* were; a step that emits a game:result leaves both seeds as they were.
C30_SeedChangeFrames ==
  [][\A s \in Sockets :
       Appended(s) # <<>>
       => LET m == Appended(s)[1]
          IN /\ m.event = "game:reveal-seed"
                  => /\ s \in DOMAIN userStates /\ s \in DOMAIN userStates'
                     /\ userStates'[s].clientSeed = userStates[s].clientSeed
                     /\ userStates'[s].balance = userStates[s].balance
             /\ m.event = "game:new-seed" /\ "clientSeed" \in DOMAIN m.data
                  => /\ s \in DOMAIN userStates /\ s \in DOMAIN userStates'
                     /\ userStates'[s].serverSeed = userStates[s].serverSeed
                     /\ userStates'[s].balance = userStates[s].balance
                     /\ LastCommitment(outbox'[s]) = LastCommitment(outbox[s])
             /\ m.event = "game:result"
                  => /\ s \in DOMAIN userStates /\ s \in DOMAIN userStates'
                     /\ userStates'[s].serverSeed = userStates[s].serverSeed
                     /\ userStates'[s].clientSeed = userStates[s].clientSeed]_vars

\* a session whose balance a play had changed then had its client seed
\* changed and its server seed rotated, and still has that balance
C30_Witness ==
  \E s \in DOMAIN userStates : \E i, j, k \in 1..Len(outbox[s]) :
    /\ i < j /\ i < k
    /\ outbox[s][i].event = "game:result"
    /\ outbox[s][i].data.balance # Num(10000)
    /\ outbox[s][j].event = "game:new-seed" /\ "clientSeed" \in DOMAIN outbox[s][j].data
    /\ outbox[s][k].event = "game:reveal-seed"
    /\ userStates[s].balance = outbox[s][i].data.balance

====
